---- MODULE Spec2Model ----
(***************************************************************************)
(* Streaming thought-resumption engine of ZennHackathon04.                 *)
(*                                                                         *)
(*   relay     apps/web/src/app/api/chat/route.ts      (POST)              *)
(*   adapter   apps/web/src/lib/vertex/gemini.ts       (streamChat)        *)
(*   consumer  components/conversations/ThinkResumePanel.tsx               *)
(*                                                                         *)
(* Text is a sequence of characters (one-character strings).  A string of  *)
(* the source that is never inspected character by character is one atom;  *)
(* the atoms in WideChars stand for non-ASCII text (two bytes on the wire).*)
(***************************************************************************)
EXTENDS Integers, Sequences, FiniteSets, TLC

(***************************************************************************)
(* Bounds of the model.                                                    *)
(***************************************************************************)
MaxSubmits == 2
MaxFragments == 2
MaxSaves == 2
MaxResets == 1
MaxInsightCalls == 2
MaxFrames == 3
MaxExchanges == 26

(***************************************************************************)
(* Text helpers.                                                           *)
(***************************************************************************)
NL == "\n"
QUOTE == "\""
BSLASH == "\\"
SPACE == " "

\* Japanese text of the source, kept as atoms (multi-byte on the wire).
MsgPermissionDenied == "JA:Vertex AI API access denied"
MsgRateLimited == "JA:Vertex AI API rate limit reached"
MsgApiNotFound == "JA:Vertex AI API not found"
MsgRelayDefault == "JA:Gemini API error"
MsgEnvMissing == "JA:environment variables missing"
VertexInitToken == "JA:Vertex AI init"
GreetingText == "JA:greeting"
HIRAGANA_A == "U+3042"

WideChars ==
  {MsgPermissionDenied, MsgRateLimited, MsgApiNotFound, MsgRelayDefault,
   GreetingText, HIRAGANA_A, MsgEnvMissing, VertexInitToken}

RECURSIVE Concat(_)
\* Array.prototype.join('') / repeated += over a sequence of texts.
Concat(ss) == IF ss = <<>> THEN <<>> ELSE Head(ss) \o Concat(Tail(ss))

\* String.prototype.startsWith
StartsWith(s, p) == Len(s) >= Len(p) /\ SubSeq(s, 1, Len(p)) = p

\* String.prototype.slice(n)
Slice(s, n) == SubSeq(s, n + 1, Len(s))

\* String.prototype.includes for a token of the message
Includes(s, tok) == \E i \in 1..Len(s) : s[i] = tok

RECURSIVE TrimStart(_)
TrimStart(s) ==
  IF s # <<>> /\ Head(s) \in {SPACE, NL} THEN TrimStart(Tail(s)) ELSE s

RECURSIVE TrimEnd(_)
TrimEnd(s) ==
  IF s # <<>> /\ s[Len(s)] \in {SPACE, NL}
    THEN TrimEnd(SubSeq(s, 1, Len(s) - 1)) ELSE s

\* String.prototype.trim
\* String.prototype.split(sep) for a one-character separator: the pieces
\* between consecutive separators (n separators give n + 1 pieces)
Split(s, sep) ==
  LET seps == {i \in 1..Len(s) : s[i] = sep}
      n == Cardinality(seps)
      pos(k) == IF k = 0 THEN 0
                ELSE IF k = n + 1 THEN Len(s) + 1
                ELSE CHOOSE i \in seps : Cardinality({j \in seps : j < i}) = k - 1
  IN  [k \in 1..(n + 1) |-> SubSeq(s, pos(k - 1) + 1, pos(k) - 1)]

(***************************************************************************)
(* JSON.stringify / JSON.parse for the two shapes on the wire,             *)
(* {"text": string} and {"error": string}.                                 *)
(***************************************************************************)
RECURSIVE Escape(_)
Escape(s) ==
  IF s = <<>> THEN <<>>
  ELSE (CASE Head(s) = NL -> <<BSLASH, "n">>
          [] Head(s) = QUOTE -> <<BSLASH, QUOTE>>
          [] Head(s) = BSLASH -> <<BSLASH, BSLASH>>
          [] OTHER -> <<Head(s)>>) \o Escape(Tail(s))

JSONStringifyString(s) == <<QUOTE>> \o Escape(s) \o <<QUOTE>>

KeyText == <<"t", "e", "x", "t">>
KeyError == <<"e", "r", "r", "o", "r">>

\* JSON.stringify({ [key]: val })
JSONStringify(key, val) ==
  <<"{">> \o JSONStringifyString(key) \o <<":">> \o JSONStringifyString(val) \o <<"}">>

NoParse == [ok |-> FALSE, key |-> <<>>, val |-> <<>>]

RECURSIVE Unescape(_)
\* body of a JSON string literal -> [ok, val]; a raw quote, a raw newline
\* or a dangling backslash is a syntax error
Unescape(s) ==
  IF s = <<>> THEN [ok |-> TRUE, val |-> <<>>]
  ELSE IF Head(s) = BSLASH THEN
    IF Len(s) < 2 \/ s[2] \notin {"n", QUOTE, BSLASH} THEN [ok |-> FALSE, val |-> <<>>]
    ELSE LET r == Unescape(SubSeq(s, 3, Len(s)))
             c == IF s[2] = "n" THEN NL ELSE s[2]
         IN  [ok |-> r.ok, val |-> IF r.ok THEN <<c>> \o r.val ELSE <<>>]
  ELSE IF Head(s) \in {QUOTE, NL} THEN [ok |-> FALSE, val |-> <<>>]
  ELSE LET r == Unescape(Tail(s))
       IN  [ok |-> r.ok, val |-> IF r.ok THEN <<Head(s)>> \o r.val ELSE <<>>]

\* parse `{"<key>":"<string>"}` for one key; anything else does not parse
ParseWithKey(data, key) ==
  LET open == <<"{", QUOTE>> \o key \o <<QUOTE, ":", QUOTE>>
      close == <<QUOTE, "}">>
  IN  IF /\ Len(data) >= Len(open) + Len(close)
         /\ StartsWith(data, open)
         /\ SubSeq(data, Len(data) - 1, Len(data)) = close
      THEN LET r == Unescape(SubSeq(data, Len(open) + 1, Len(data) - 2))
           IN  IF r.ok THEN [ok |-> TRUE, key |-> key, val |-> r.val] ELSE NoParse
      ELSE NoParse

\* JSON.parse(data) as { text?: string; error?: string }
JSONParse(data) ==
  LET t == ParseWithKey(data, KeyText)
      e == ParseWithKey(data, KeyError)
  IN  IF t.ok THEN t ELSE e

(***************************************************************************)
(* TextEncoder.encode / TextDecoder.decode(value, { stream: true }).       *)
(* A byte is [ch, part]: part 0 is a one-byte character, parts 1 and 2 are *)
(* the two bytes of a wide character.                                      *)
(***************************************************************************)
RECURSIVE Encode(_)
Encode(s) ==
  IF s = <<>> THEN <<>>
  ELSE (IF Head(s) \in WideChars
          THEN <<[ch |-> Head(s), part |-> 1], [ch |-> Head(s), part |-> 2]>>
          ELSE <<[ch |-> Head(s), part |-> 0]>>) \o Encode(Tail(s))

\* [text, pending]: an incomplete character at the end is kept for the
\* next call, a malformed byte becomes U+FFFD
DecodeBytes(b) ==
  LET n == Len(b)
      lead(i) == b[i].part = 1 /\ i < n /\ b[i + 1].part = 2 /\ b[i + 1].ch = b[i].ch
      trail(i) == b[i].part = 2 /\ i > 1 /\ b[i - 1].part = 1 /\ b[i - 1].ch = b[i].ch
      held(i) == b[i].part = 1 /\ i = n
      mark(i) ==
        IF b[i].part = 0 \/ lead(i) THEN [keep |-> TRUE, ch |-> b[i].ch]
        ELSE IF trail(i) \/ held(i) THEN [keep |-> FALSE, ch |-> b[i].ch]
        ELSE [keep |-> TRUE, ch |-> "U+FFFD"]
      kept == SelectSeq([i \in 1..n |-> mark(i)], LAMBDA m : m.keep)
  IN  [text |-> [i \in 1..Len(kept) |-> kept[i].ch],
       pending |-> IF n > 0 /\ held(n) THEN <<b[n]>> ELSE <<>>]


(***************************************************************************)
(* Wire frames of the relay.                                               *)
(***************************************************************************)
DataPrefix == <<"d", "a", "t", "a", ":", SPACE>>
DoneToken == <<"[", "D", "O", "N", "E", "]">>

\* `data: ${JSON.stringify({ text: chunk })}\n\n`
TextFrame(chunk) == DataPrefix \o JSONStringify(KeyText, chunk) \o <<NL, NL>>
\* 'data: [DONE]\n\n'
DoneFrame == DataPrefix \o DoneToken \o <<NL, NL>>
\* `data: ${JSON.stringify({ error: errorMessage })}\n\n`
ErrorFrame(msg) == DataPrefix \o JSONStringify(KeyError, msg) \o <<NL, NL>>

(***************************************************************************)
(* Inputs of the model.                                                    *)
(***************************************************************************)
\* what the user can type into the input box
Inputs == {<<SPACE>>, <<SPACE, "q", SPACE>>}

\* text of one chunk of streamingResult.stream (empty: a chunk without text)
ProviderChunks == {<<>>, <<"a">>, <<HIRAGANA_A, NL>>}

\* values the provider client can reject with: [isError, message]
UnderlyingErrors ==
  { [isError |-> TRUE, message |-> <<"4", "0", "3", SPACE, "PERMISSION_DENIED">>],
    [isError |-> TRUE, message |-> <<"b", "o", "o", "m">>],
    [isError |-> TRUE, message |-> <<>>],
    [isError |-> FALSE, message |-> <<>>] }

\* message of the 404 response of the relay
MsgConversationNotFound == "JA:conversation not found"

(***************************************************************************)
(* Provider adapter: getVertexAI and the catch block of streamChat.        *)
(***************************************************************************)
\* process.env of the server: GCP_PROJECT_ID is set or not
Environments == {[GCP_PROJECT_ID |-> b] : b \in BOOLEAN}

\* what getVertexAI() throws without GCP_PROJECT_ID
VertexNotConfigured ==
  [isError |-> TRUE, message |-> <<VertexInitToken, MsgEnvMissing, "GCP_PROJECT_ID">>]

streamChatCatch(e) ==
  IF e.isError /\ Includes(e.message, "PERMISSION_DENIED")
    THEN [isError |-> TRUE, message |-> <<MsgPermissionDenied>>]
  ELSE IF e.isError /\ Includes(e.message, "RESOURCE_EXHAUSTED")
    THEN [isError |-> TRUE, message |-> <<MsgRateLimited>>]
  ELSE IF e.isError /\ Includes(e.message, "NOT_FOUND")
    THEN [isError |-> TRUE, message |-> <<MsgApiNotFound>>]
  ELSE e

\* streamChat: contents = messages.map(...) followed by the new user message
ProviderContents(history, userMessage) ==
  [i \in 1..Len(history) |->
     [role |-> IF history[i].role = "user" THEN "user" ELSE "model",
      text |-> history[i].content]]
    \o <<[role |-> "user", text |-> userMessage]>>

\* relay: error instanceof Error ? error.message : '<default>'
RelayErrorMessage(thrown) ==
  IF thrown.isError THEN thrown.message ELSE <<MsgRelayDefault>>

(***************************************************************************)
(* Consumer: chat messages.                                                *)
(***************************************************************************)
GREETING_MESSAGE_ID == [kind |-> "greeting", n |-> 0]
NoId == [kind |-> "null", n |-> 0]
NullError == [isNull |-> TRUE, message |-> <<>>]

ErrorOf(msg) == [isNull |-> FALSE, message |-> msg]

UserId(n) == [kind |-> "user", n |-> n]
ModelId(n) == [kind |-> "model", n |-> n]

\* state set by the greeting effect (useEffect on mount and after a reset)
GreetingMessages ==
  << [id |-> GREETING_MESSAGE_ID, role |-> "model", content |-> <<GreetingText>>] >>

RECURSIVE MapTurns(_)
\* .map((m) => ({ role: m.role, content: m.content }))
MapTurns(ms) ==
  IF ms = <<>> THEN <<>>
  ELSE <<[role |-> Head(ms).role, content |-> Head(ms).content]>> \o MapTurns(Tail(ms))

IsNotGreeting(m) == m.id # GREETING_MESSAGE_ID

\* variant of BuildChatHistory without the filter
BuildChatHistory_Unfiltered(ms) == MapTurns(ms)

\* messages.filter((m) => m.id !== GREETING_MESSAGE_ID).map(...)
BuildChatHistory(ms) == MapTurns(SelectSeq(ms, IsNotGreeting))

(***************************************************************************)
(* Consumer: dispatch of the lines of one decoded chunk.                   *)
(* Result: the accumulator, whether an Error was thrown (and its message), *)
(* and whether the [DONE] line was seen (it only leaves the for loop).     *)
(***************************************************************************)
RECURSIVE ProcessLines(_, _)
ProcessLines(lines, acc) ==
  IF lines = <<>> THEN [acc |-> acc, threw |-> FALSE, message |-> <<>>, done |-> FALSE]
  ELSE IF ~StartsWith(Head(lines), DataPrefix) THEN ProcessLines(Tail(lines), acc)
  ELSE LET data == Slice(Head(lines), 6)
           parsed == JSONParse(data)
       IN  IF data = DoneToken
             THEN [acc |-> acc, threw |-> FALSE, message |-> <<>>, done |-> TRUE]
           ELSE IF ~parsed.ok THEN ProcessLines(Tail(lines), acc)
           ELSE IF parsed.key = KeyError /\ parsed.val # <<>>
             THEN [acc |-> acc, threw |-> TRUE, message |-> parsed.val, done |-> FALSE]
           ELSE IF parsed.key = KeyText /\ parsed.val # <<>>
             THEN ProcessLines(Tail(lines), acc \o parsed.val)
           ELSE ProcessLines(Tail(lines), acc)

\* chunk.split('\n') and the for loop over the lines
ProcessChunk(chunk, acc) == ProcessLines(Split(chunk, NL), acc)

(***************************************************************************)
(* Insight extractor: the backward scan of handleSaveInsight.              *)
(***************************************************************************)
\* messages.findIndex((m) => m.id === id), 1-based; 0 when absent
FindIndex(ms, id) ==
  IF \E i \in 1..Len(ms) : ms[i].id = id
    THEN CHOOSE i \in 1..Len(ms) :
           ms[i].id = id /\ \A j \in 1..(i - 1) : ms[j].id # id
    ELSE 0

RECURSIVE ScanUser(_, _)
\* for (let i = modelMessageIndex - 1; i >= 0; i--) if role === 'user' break
ScanUser(ms, i) ==
  IF i < 1 THEN 0
  ELSE IF ms[i].role = "user" THEN i
  ELSE ScanUser(ms, i - 1)

\* variant of PairedUserIndex scanning forward from the start of the history
PairedUserIndex_Forward(ms, idx) ==
  IF \E j \in 1..(idx - 1) : ms[j].role = "user"
    THEN CHOOSE j \in 1..(idx - 1) :
           ms[j].role = "user" /\ \A k \in 1..(j - 1) : ms[k].role # "user"
    ELSE 0

\* index of the user message paired with the message at idx; 0 when none
PairedUserIndex(ms, idx) == ScanUser(ms, idx - 1)

(***************************************************************************)
(* Relay: request bodies, ChatRequestSchema, isValidDocumentId.            *)
(***************************************************************************)
\* JSON values of a request body
Absent == [type |-> "undefined", value |-> <<>>]
JsonNull == [type |-> "null", value |-> <<>>]
Str(s) == [type |-> "string", value |-> s]
Arr(a) == [type |-> "array", value |-> a]

MaxIdLength == 1500
MaxContentLength == 10000
MaxHistoryLength == 50

Repeat(c, n) == [i \in 1..n |-> c]

\* z.string().min(1).optional()
IdFieldOk(v) == v.type = "undefined" \/ (v.type = "string" /\ Len(v.value) >= 1)

\* z.string().min(1).max(10000)
UserMessageOk(v) ==
  v.type = "string" /\ Len(v.value) >= 1 /\ Len(v.value) <= MaxContentLength

\* z.object({ role: z.enum(['user', 'model']), content: z.string().max(10000) })
TurnOk(t) == t.role \in {"user", "model"} /\ Len(t.content) <= MaxContentLength

\* z.array(...).max(50).default([])
ChatHistoryOk(v) ==
  \/ v.type = "undefined"
  \/ /\ v.type = "array"
     /\ Len(v.value) <= MaxHistoryLength
     /\ \A i \in 1..Len(v.value) : TurnOk(v.value[i])

\* variant of ExactlyOneSubject that only asks for a subject
ExactlyOneSubject_AtLeastOne(body) ==
  (body.conversationId.type # "undefined") \/ (body.spaceId.type # "undefined")

\* .refine(): (conversationId !== undefined) !== (spaceId !== undefined)
ExactlyOneSubject(body) ==
  (body.conversationId.type # "undefined") # (body.spaceId.type # "undefined")

\* ChatRequestSchema.safeParse(body)
SafeParse(body) ==
  IF /\ body.kind = "object"
     /\ IdFieldOk(body.conversationId)
     /\ IdFieldOk(body.spaceId)
     /\ UserMessageOk(body.userMessage)
     /\ ChatHistoryOk(body.chatHistory)
     /\ ExactlyOneSubject(body)
    THEN [success |-> TRUE,
          conversationId |-> body.conversationId,
          spaceId |-> body.spaceId,
          userMessage |-> body.userMessage.value,
          chatHistory |-> IF body.chatHistory.type = "undefined" THEN <<>>
                          ELSE body.chatHistory.value]
    ELSE [success |-> FALSE, conversationId |-> Absent, spaceId |-> Absent,
          userMessage |-> <<>>, chatHistory |-> <<>>]

\* variant of isValidDocumentId without the test for a slash
isValidDocumentId_NoSlashTest(id) ==
  LET n == Len(id)
      reserved ==
        /\ n >= 4
        /\ id[1] = "_" /\ id[2] = "_" /\ id[n - 1] = "_" /\ id[n] = "_"
        /\ \A i \in 3..(n - 2) : id[i] # NL
  IN  /\ ~(n = 0 \/ n > MaxIdLength)
      /\ ~(id = <<".">> \/ id = <<".", ".">>)
      /\ ~reserved

isValidDocumentId(id) ==
  LET n == Len(id)
      reserved ==
        /\ n >= 4
        /\ id[1] = "_" /\ id[2] = "_" /\ id[n - 1] = "_" /\ id[n] = "_"
        /\ \A i \in 3..(n - 2) : id[i] # NL
  IN  /\ ~(n = 0 \/ n > MaxIdLength)
      /\ ~(\E i \in 1..n : id[i] = "/")
      /\ ~(id = <<".">> \/ id = <<".", ".">>)
      /\ ~reserved

(***************************************************************************)
(* Relay: the document store and the context builders.                     *)
(***************************************************************************)
NotAnArray == [isArray |-> FALSE, items |-> <<>>]
ArrayOf(items) == [isArray |-> TRUE, items |-> items]

\* snapshot of a document that does not exist
NoDoc ==
  [exists |-> FALSE, id |-> <<>>, title |-> <<>>, note |-> <<>>,
   messages |-> NotAnArray, conversationIds |-> <<>>]

\* { id: doc.id, ...doc.data() } as Conversation
ConversationDoc(id, messages) ==
  [exists |-> TRUE, id |-> id, title |-> <<"T">> \o id, note |-> <<"N">> \o id,
   messages |-> messages, conversationIds |-> <<>>]

\* { id: spaceDoc.id, ...spaceDoc.data() } as Space
SpaceDoc(id, conversationIds) ==
  [exists |-> TRUE, id |-> id, title |-> <<"T">> \o id, note |-> <<"N">> \o id,
   messages |-> NotAnArray, conversationIds |-> conversationIds]

\* db.collection(name).doc(id).get()
GetDoc(collection, id) ==
  IF id \in DOMAIN collection THEN collection[id] ELSE NoDoc

\* db.getAll(...refs): one snapshot per reference, in the order of the references
GetAll(collection, ids) == [i \in 1..Len(ids) |-> GetDoc(collection, ids[i])]

RECURSIVE Join(_, _)
\* Array.prototype.join
Join(parts, sep) ==
  IF parts = <<>> THEN <<>>
  ELSE IF Len(parts) = 1 THEN parts[1]
  ELSE parts[1] \o sep \o Join(Tail(parts), sep)

RoleLabel(role) ==
  IF role = "user" THEN "User" ELSE IF role = "assistant" THEN "AI" ELSE "System"

\* `${role}: ${msg.content}`
TurnLine(msg) == <<RoleLabel(msg.role), ":", SPACE>> \o msg.content

HeaderMark == "### JA:talk"

buildConversationSummary(conversation) ==
  LET items == conversation.messages.items
  IN  Join([i \in 1..Len(items) |-> TurnLine(items[i])], <<NL, NL>>)

buildSpaceConversationSummary(conversations) ==
  LET block(i) ==
        <<HeaderMark, ToString(i), ":", SPACE>> \o conversations[i].title
          \o <<NL>> \o buildConversationSummary(conversations[i])
  IN  Join([i \in 1..Len(conversations) |-> block(i)], <<NL, NL, "---", NL, NL>>)

\* variant of IsUsableConversation without Array.isArray
IsUsableConversation_ExistsOnly(doc) == doc.exists

\* doc.exists && Array.isArray(conv.messages)
IsUsableConversation(doc) == doc.exists /\ doc.messages.isArray

NoContext == [conversationSummary |-> <<>>, title |-> <<>>, note |-> <<>>]

\* the context buildConversationContext returns for a well-formed document
ConversationContext(conversation) ==
  [conversationSummary |-> buildConversationSummary(conversation),
   title |-> conversation.title, note |-> conversation.note]

\* the context buildSpaceContext returns for a space and the snapshots of
\* its conversations
SpaceContext(space, docs) ==
  [conversationSummary |->
     buildSpaceConversationSummary(SelectSeq(docs, IsUsableConversation)),
   title |-> space.title, note |-> space.note]

\* responses of the relay
ErrorResponse(status, code) == [kind |-> "json", status |-> status, code |-> code]

\* tokens of error messages the classifiers look for
FirebaseInitToken == "JA:Firebase Admin SDK init"

\* what getDb() throws without its environment variables
FirebaseNotConfigured ==
  [isError |-> TRUE, message |-> <<FirebaseInitToken, MsgEnvMissing>>]

\* values a store read can reject with
StoreErrors ==
  { [isError |-> TRUE, message |-> <<"1", "4", SPACE, "UNAVAILABLE">>],
    [isError |-> TRUE, message |-> <<"5", SPACE, "NOT_FOUND">>],
    [isError |-> FALSE, message |-> <<>>] }

\* createServerErrorResponse(error, ...): the code for what was thrown
ServerErrorCode(thrown) ==
  IF thrown.isError /\ Includes(thrown.message, FirebaseInitToken)
    THEN "FIREBASE_NOT_CONFIGURED"
  ELSE IF thrown.isError /\ Includes(thrown.message, VertexInitToken)
    THEN "VERTEX_AI_NOT_CONFIGURED"
  ELSE IF thrown.isError /\ \E tok \in {"Vertex AI API", "PERMISSION_DENIED",
                                        "RESOURCE_EXHAUSTED", "NOT_FOUND"} :
                              Includes(thrown.message, tok)
    THEN "VERTEX_AI_ERROR"
  ELSE "INTERNAL_ERROR"

(***************************************************************************)
(* Relay: the requests and stores the model draws from.                    *)
(***************************************************************************)
c1 == <<"c", "1">>
c2 == <<"c", "2">>
c9 == <<"c", "9">>
s1 == <<"s", "1">>
s9 == <<"s", "9">>

ConvIds == {c1, c2}
SpaceIds == {s1}

StoredTurns ==
  { <<>>,
    <<[role |-> "user", content |-> <<"h", "i">>]>>,
    <<[role |-> "user", content |-> <<>>],
      [role |-> "assistant", content |-> <<HIRAGANA_A>>],
      [role |-> "system", content |-> <<"s">>]>> }

ConversationDocs(id) ==
  {NoDoc, ConversationDoc(id, NotAnArray)}
    \cup {ConversationDoc(id, ArrayOf(t)) : t \in StoredTurns}

SpaceDocs(id) ==
  {NoDoc} \cup {SpaceDoc(id, ids) : ids \in {<<>>, <<c1>>, <<c2, c1>>, <<c1, c9, c2>>}}

Stores ==
  { [configured |-> cfg, conversations |-> cs, spaces |-> ss, insights |-> <<>>] :
      cfg \in BOOLEAN,
      cs \in {f \in [ConvIds -> UNION {ConversationDocs(id) : id \in ConvIds}] :
                \A id \in ConvIds : f[id] \in ConversationDocs(id)},
      ss \in {f \in [SpaceIds -> UNION {SpaceDocs(id) : id \in SpaceIds}] :
                \A id \in SpaceIds : f[id] \in SpaceDocs(id)} }

\* the store behind a chat session
SessionDb ==
  [configured |-> TRUE,
   conversations |-> [id \in ConvIds |-> ConversationDoc(id, ArrayOf(<<>>))],
   spaces |-> [id \in SpaceIds |-> NoDoc],
   insights |-> <<>>]

Body(conversationId, spaceId, userMessage, chatHistory) ==
  [kind |-> "object", conversationId |-> conversationId, spaceId |-> spaceId,
   userMessage |-> userMessage, chatHistory |-> chatHistory]

\* a body that is not JSON, and the JSON value null
MalformedBody == [Body(Absent, Absent, Absent, Absent) EXCEPT !.kind = "malformed"]
NullBody == [Body(Absent, Absent, Absent, Absent) EXCEPT !.kind = "null"]

Hi == Str(<<"h", "i">>)
Turn(role) == [role |-> role, content |-> <<"x">>]

Bodies ==
  { MalformedBody, NullBody,
    Body(Str(c1), Str(s1), Hi, Absent),
    Body(Absent, Absent, Hi, Absent),
    Body(Str(<<>>), Absent, Hi, Absent),
    Body(Str(<<>>), Str(s1), Hi, Absent),
    Body(JsonNull, Str(s1), Hi, Absent),
    Body(Str(<<"a", "/", "b">>), Absent, Hi, Absent),
    Body(Str(<<".", ".">>), Absent, Hi, Absent),
    Body(Absent, Str(<<"_", "_", "x", "_", "_">>), Hi, Absent),
    Body(Str(Repeat("x", MaxIdLength + 1)), Absent, Hi, Absent),
    Body(Str(c1), Absent, Hi, Absent),
    Body(Str(c2), Absent, Hi, Arr(<<Turn("user"), Turn("model")>>)),
    Body(Str(c9), Absent, Hi, Absent),
    Body(Absent, Str(s1), Hi, Absent),
    Body(Absent, Str(s9), Hi, Absent),
    Body(Str(c1), Absent, Absent, Absent),
    Body(Str(c1), Absent, Str(<<>>), Absent),
    Body(Str(c1), Absent, Str(<<SPACE>>), Absent),
    Body(Str(c1), Absent, Str(Repeat("x", MaxContentLength)), Absent),
    Body(Str(c1), Absent, Str(Repeat("x", MaxContentLength + 1)), Absent),
    Body(Str(c1), Absent, Hi, JsonNull),
    Body(Str(c1), Absent, Hi, Arr(<<Turn("assistant")>>)),
    Body(Str(c1), Absent, Hi, Arr(Repeat(Turn("user"), MaxHistoryLength))),
    Body(Str(c1), Absent, Hi, Arr(Repeat(Turn("user"), MaxHistoryLength + 1))) }

\* no POST /api/chat call is running
IdlePost ==
  [pc |-> "idle", body |-> NullBody, subject |-> <<>>, reads |-> <<>>,
   space |-> NoDoc, response |-> [kind |-> "none", status |-> 0, code |-> "NONE"], context |-> NoContext,
   messages |-> <<>>, userMessage |-> <<>>, providerCalls |-> 0,
   rejected |-> FALSE, started |-> "no", frames |-> <<>>]

(***************************************************************************)
(* POST /api/insights: SaveInsightRequestSchema, requests, responses.      *)
(***************************************************************************)
\* z.string().min(1).max(10000) of question and answer
InsightTextOk(v) ==
  v.type = "string" /\ Len(v.value) >= 1 /\ Len(v.value) <= MaxContentLength

\* truthiness of an optional string field
Truthy(v) == v.type = "string" /\ v.value # <<>>

\* .refine(): (conversationId && !spaceId) || (!conversationId && spaceId)
InsightRefine(body) ==
  \/ Truthy(body.conversationId) /\ ~Truthy(body.spaceId)
  \/ ~Truthy(body.conversationId) /\ Truthy(body.spaceId)

\* SaveInsightRequestSchema.safeParse(body).success
SaveInsightParses(body) ==
  /\ body.kind = "object"
  /\ IdFieldOk(body.conversationId)
  /\ IdFieldOk(body.spaceId)
  /\ InsightTextOk(body.question)
  /\ InsightTextOk(body.answer)
  /\ InsightRefine(body)

InsightBody(conversationId, spaceId, question, answer) ==
  [kind |-> "object", conversationId |-> conversationId, spaceId |-> spaceId,
   question |-> question, answer |-> answer]

MalformedInsightBody ==
  [InsightBody(Absent, Absent, Absent, Absent) EXCEPT !.kind = "malformed"]

Q == Str(<<"q">>)
A == Str(<<"a">>)

InsightBodies ==
  { MalformedInsightBody,
    InsightBody(Str(c1), Str(s1), Q, A),
    InsightBody(Absent, Absent, Q, A),
    InsightBody(Str(<<>>), Str(s1), Q, A),
    InsightBody(Str(<<"a", "/", "b">>), Absent, Q, A),
    InsightBody(Absent, Str(<<"_", "_", "x", "_", "_">>), Q, A),
    InsightBody(Str(c1), Absent, Q, A),
    InsightBody(Str(c9), Absent, Q, A),
    InsightBody(Absent, Str(s1), Q, A),
    InsightBody(Absent, Str(s9), Q, A),
    InsightBody(Str(c1), Absent, Str(<<>>), A),
    InsightBody(Str(c1), Absent, Q, Absent),
    InsightBody(Str(c1), Absent, Q, Str(Repeat("x", MaxContentLength + 1))) }

\* NextResponse.json({ success: false, error: { code } }, { status })
InsightFailure(status, code) ==
  [status |-> status, code |-> code, id |-> 0, createdAt |-> "none"]

\* NextResponse.json({ success: true, data: { id, createdAt } }, { status: 201 })
InsightCreated(id, createdAt) ==
  [status |-> 201, code |-> "NONE", id |-> id, createdAt |-> createdAt]

\* the document add() stores: { ...data, createdAt: now, updatedAt: now },
\* under a fresh document id
InsightDoc(id, data, now) ==
  [id |-> id, conversationId |-> data.conversationId, spaceId |-> data.spaceId,
   question |-> data.question, answer |-> data.answer,
   createdAt |-> now, updatedAt |-> now]

\* no POST /api/insights call has been made
IdleInsightPost ==
  [pc |-> "idle", body |-> MalformedInsightBody, now |-> "none", reads |-> <<>>,
   response |-> InsightFailure(0, "NONE"), calls |-> 0]

\* stores a POST /api/insights call runs on
InsightStores ==
  {st \in Stores : st.conversations[c2] = ConversationDoc(c2, ArrayOf(<<>>))}

(***************************************************************************)
(* State.                                                                  *)
(***************************************************************************)
VARIABLES
  messages,          \* useState<ChatMessage[]>
  input,             \* useState('')
  streamingContent,  \* useState('')
  isLoading,         \* useState(false)
  error,             \* useState<string | null>
  savedInsightIds,   \* useState<Set<string>>
  savingInsightId,   \* useState<string | null>
  chat,              \* the running handleSubmit call
  relay,             \* the POST /api/chat call that serves it
  wire,              \* bytes enqueued by the relay and not yet read
  emitted,           \* frames enqueued by the relay for the current request
  saves,             \* handleSaveInsight calls awaiting POST /api/insights
  lastSave,          \* what the last handleSaveInsight call did
  counters,          \* submits, saves and resets so far; next message id
  db,                \* Firestore: the conversations and spaces collections
  post,              \* a POST /api/chat call up to its Response
  env,               \* process.env of the server
  insightPost        \* a POST /api/insights call

vars ==
  <<messages, input, streamingContent, isLoading, error, savedInsightIds,
    savingInsightId, chat, relay, wire, emitted, saves, lastSave, counters,
    db, post, env, insightPost>>

consumerVars ==
  <<messages, input, streamingContent, isLoading, error, savedInsightIds,
    savingInsightId>>

IdleChat ==
  [pc |-> "idle", accumulatedContent |-> <<>>, pending |-> <<>>,
   chatHistory |-> <<>>, userMessage |-> <<>>, before |-> <<>>,
   userId |-> NoId, doneSeen |-> FALSE, abandoned |-> FALSE, outcome |-> "none",
   how |-> "none"]

\* the history after k exchanges that ended with a reply: the greeting, then
\* a user turn and a model turn per exchange
History(k) ==
  [j \in 1..(2 * k + 1) |->
     IF j = 1 THEN GreetingMessages[1]
     ELSE IF j % 2 = 0
       THEN [id |-> UserId(j - 1), role |-> "user", content |-> <<"q">>]
       ELSE [id |-> ModelId(j - 1), role |-> "model", content |-> <<"a">>]]

\* body: JSON.stringify({ conversationId: conversation.id, userMessage:
\* trimmedInput, chatHistory }) of the running handleSubmit call
RequestBody ==
  Body(Str(c1), Absent, Str(chat.userMessage), Arr(chat.chatHistory))

\* the consumer after mount, the greeting effect and k exchanges that ended
\* with a reply; no request under way
SessionAfter(k) ==
  /\ messages = History(k)
  /\ input = <<>>
  /\ streamingContent = <<>>
  /\ isLoading = FALSE
  /\ error = NullError
  /\ savedInsightIds = {}
  /\ savingInsightId = NoId
  /\ chat = IdleChat
  /\ relay = [pc |-> "none", chunks |-> 0]
  /\ wire = <<>>
  /\ emitted = <<>>
  /\ saves = <<>>
  /\ lastSave = [target |-> NoId, outcome |-> "none", user |-> NoId]
  /\ counters = [submits |-> 0, saves |-> 0, resets |-> 0, nextId |-> 2 * k + 1]

\* the consumer after mount and the greeting effect; no request under way
InitSession == SessionAfter(0)

Init ==
  /\ InitSession
  /\ db = SessionDb
  /\ post = IdlePost
  /\ env \in Environments
  /\ insightPost = IdleInsightPost

(***************************************************************************)
(* Consumer: typing, handleSubmit up to the fetch.                         *)
(***************************************************************************)
\* onChange of the input box (disabled while isLoading)
TypeInput(s) ==
  /\ ~isLoading
  /\ counters.submits < MaxSubmits
  /\ s # input
  /\ input' = s
  /\ UNCHANGED <<db, post, env, insightPost, messages, streamingContent, isLoading, error, savedInsightIds,
                 savingInsightId, chat, relay, wire, emitted, saves, lastSave,
                 counters>>

handleSubmit ==
  LET trimmedInput == TrimEnd(TrimStart(input))
      userMessage == [id |-> UserId(counters.nextId), role |-> "user",
                      content |-> trimmedInput]
  IN  /\ ~(trimmedInput = <<>> \/ isLoading)
      /\ counters.submits < MaxSubmits
      /\ messages' = Append(messages, userMessage)
      /\ input' = <<>>
      /\ isLoading' = TRUE
      /\ error' = NullError
      /\ streamingContent' = <<>>
      /\ chat' = [IdleChat EXCEPT !.pc = "fetch",
                                  !.chatHistory = BuildChatHistory(messages),
                                  !.userMessage = trimmedInput,
                                  !.before = messages,
                                  !.userId = userMessage.id]
      /\ relay' = [pc |-> "received", chunks |-> 0]
      /\ wire' = <<>>
      /\ emitted' = <<>>
      /\ counters' = [counters EXCEPT !.submits = @ + 1, !.nextId = @ + 1]
      /\ UNCHANGED <<db, post, env, insightPost, savedInsightIds, savingInsightId, saves, lastSave>>

(***************************************************************************)
(* Consumer: the two ways handleSubmit ends.                               *)
(***************************************************************************)
\* variant of CatchAndFinally without the finally block
CatchAndFinally_NoFinally(msg, how) ==
  /\ error' = ErrorOf(msg)
  /\ chat' = [chat EXCEPT !.pc = "idle", !.outcome = "error", !.how = how]
  /\ wire' = <<>>
  /\ UNCHANGED <<db, post, env, insightPost, messages, input, savedInsightIds, savingInsightId, relay,
                 emitted, saves, lastSave, counters, isLoading, streamingContent>>

\* catch (err) { setError(err.message) } finally { ... }
CatchAndFinally(msg, how) ==
  /\ error' = ErrorOf(msg)
  /\ isLoading' = FALSE
  /\ streamingContent' = <<>>
  /\ chat' = [chat EXCEPT !.pc = "idle", !.outcome = "error", !.how = how]
  /\ wire' = <<>>
  /\ UNCHANGED <<db, post, env, insightPost, messages, input, savedInsightIds, savingInsightId, relay,
                 emitted, saves, lastSave, counters>>

\* variant of AppendAndFinally without the finally block
AppendAndFinally_NoFinally(how) ==
  /\ IF chat.accumulatedContent # <<>>
       THEN /\ messages' = Append(messages,
                 [id |-> ModelId(counters.nextId), role |-> "model",
                  content |-> chat.accumulatedContent])
            /\ counters' = [counters EXCEPT !.nextId = @ + 1]
            /\ chat' = [chat EXCEPT !.pc = "idle", !.outcome = "appended", !.how = how]
       ELSE /\ UNCHANGED <<messages, counters>>
            /\ chat' = [chat EXCEPT !.pc = "idle", !.outcome = "empty", !.how = how]
  /\ wire' = <<>>
  /\ UNCHANGED <<db, post, env, insightPost, input, error, savedInsightIds,
                 savingInsightId, relay, emitted, saves, lastSave, isLoading,
                 streamingContent>>

\* after the read loop: if (accumulatedContent) append; finally { ... }
AppendAndFinally(how) ==
  /\ IF chat.accumulatedContent # <<>>
       THEN /\ messages' = Append(messages,
                 [id |-> ModelId(counters.nextId), role |-> "model",
                  content |-> chat.accumulatedContent])
            /\ counters' = [counters EXCEPT !.nextId = @ + 1]
            /\ chat' = [chat EXCEPT !.pc = "idle", !.outcome = "appended", !.how = how]
       ELSE /\ UNCHANGED <<messages, counters>>
            /\ chat' = [chat EXCEPT !.pc = "idle", !.outcome = "empty", !.how = how]
  /\ isLoading' = FALSE
  /\ streamingContent' = <<>>
  /\ wire' = <<>>
  /\ UNCHANGED <<db, post, env, insightPost, input, error, savedInsightIds, savingInsightId, relay,
                 emitted, saves, lastSave>>

(***************************************************************************)
(* Relay and provider adapter.                                             *)
(***************************************************************************)
\* fetch() rejects: the request never got an answer
FetchRejects ==
  /\ chat.pc = "fetch"
  /\ CatchAndFinally(<<"Failed to fetch">>, "fetch")

\* the relay answers 404 NOT_FOUND; the consumer throws
\* errorData.error?.message || '<default>'
ResponseNotOk ==
  /\ chat.pc = "fetch"
  /\ relay.pc = "received"
  /\ SafeParse(RequestBody).success
  /\ CatchAndFinally(<<MsgConversationNotFound>>, "response")

\* the relay answers 400 VALIDATION_ERROR: the body does not satisfy
\* ChatRequestSchema; the consumer throws the message of the response
ResponseInvalid ==
  /\ chat.pc = "fetch"
  /\ relay.pc = "received"
  /\ ~SafeParse(RequestBody).success
  /\ CatchAndFinally(<<"JA:invalid request format">>, "invalid")

\* the relay returns the streaming Response; the consumer gets its reader
OpenStream ==
  /\ chat.pc = "fetch"
  /\ relay.pc = "received"
  /\ SafeParse(RequestBody).success
  /\ relay' = [relay EXCEPT !.pc = "stream"]
  /\ chat' = [chat EXCEPT !.pc = "read"]
  /\ UNCHANGED <<db, post, env, insightPost, consumerVars, wire, emitted, saves, lastSave, counters>>

Enqueue(frame, event) ==
  /\ wire' = wire \o Encode(frame)
  /\ emitted' = Append(emitted, event)

\* one chunk of streamingResult.stream: `if (text) yield text`, and the
\* relay frames what was yielded
ProviderChunk(text) ==
  /\ chat.pc = "read"
  /\ relay.pc = "stream"
  /\ env.GCP_PROJECT_ID
  /\ relay.chunks < MaxFragments
  /\ relay' = [relay EXCEPT !.chunks = @ + 1]
  /\ IF text # <<>>
       THEN Enqueue(TextFrame(text), [kind |-> "text", value |-> text])
       ELSE UNCHANGED <<wire, emitted>>
  /\ UNCHANGED <<db, post, env, insightPost, consumerVars, chat, saves, lastSave, counters>>

\* the provider stream ends: the [DONE] frame, controller.close()
ProviderComplete ==
  /\ chat.pc = "read"
  /\ relay.pc = "stream"
  /\ env.GCP_PROJECT_ID
  /\ relay' = [relay EXCEPT !.pc = "closed"]
  /\ Enqueue(DoneFrame, [kind |-> "done", value |-> <<>>])
  /\ UNCHANGED <<db, post, env, insightPost, consumerVars, chat, saves, lastSave, counters>>

\* variant of ProviderRaise without controller.close()
ProviderRaise_NoClose(e) ==
  LET errorMessage == RelayErrorMessage(streamChatCatch(e))
  IN  /\ chat.pc = "read"
      /\ relay.pc = "stream"
      /\ env.GCP_PROJECT_ID
      /\ relay' = relay
      /\ Enqueue(ErrorFrame(errorMessage), [kind |-> "error", value |-> errorMessage])
      /\ UNCHANGED <<db, post, env, insightPost, consumerVars, chat, saves, lastSave, counters>>

\* the provider client rejects with e: streamChat's catch, then the relay's
ProviderRaise(e) ==
  LET errorMessage == RelayErrorMessage(streamChatCatch(e))
  IN  /\ chat.pc = "read"
      /\ relay.pc = "stream"
      /\ env.GCP_PROJECT_ID
      /\ relay' = [relay EXCEPT !.pc = "closed"]
      /\ Enqueue(ErrorFrame(errorMessage), [kind |-> "error", value |-> errorMessage])
      /\ UNCHANGED <<db, post, env, insightPost, consumerVars, chat, saves, lastSave, counters>>

\* the first next() of streamChat runs getVertexAI(), which throws without
\* GCP_PROJECT_ID before the provider is contacted; the relay's catch frames
\* the message of what was thrown
getVertexAIThrows ==
  LET errorMessage == RelayErrorMessage(VertexNotConfigured)
  IN  /\ chat.pc = "read"
      /\ relay.pc = "stream"
      /\ ~env.GCP_PROJECT_ID
      /\ relay' = [relay EXCEPT !.pc = "closed"]
      /\ Enqueue(ErrorFrame(errorMessage), [kind |-> "error", value |-> errorMessage])
      /\ UNCHANGED <<db, post, env, insightPost, consumerVars, chat, saves, lastSave, counters>>

(***************************************************************************)
(* Consumer: the read loop.                                                *)
(***************************************************************************)
\* reader.read() resolves with the next n bytes
Read(n) ==
  LET value == SubSeq(wire, 1, n)
      d == DecodeBytes(chat.pending \o value)
      r == ProcessChunk(d.text, chat.accumulatedContent)
  IN  /\ chat.pc = "read"
      /\ n \in 1..Len(wire)
      /\ IF r.threw
           THEN CatchAndFinally(r.message, "frame")
           ELSE /\ chat' = [chat EXCEPT !.accumulatedContent = r.acc,
                                        !.pending = d.pending,
                                        !.doneSeen = @ \/ r.done]
                /\ streamingContent' =
                     IF r.acc # chat.accumulatedContent THEN r.acc ELSE streamingContent
                /\ wire' = SubSeq(wire, n + 1, Len(wire))
                /\ UNCHANGED <<db, post, env, insightPost, messages, input, isLoading, error, savedInsightIds,
                               savingInsightId, relay, emitted, saves, lastSave,
                               counters>>

\* reader.read() resolves with done after the relay closed the stream
ReadDone ==
  /\ chat.pc = "read"
  /\ wire = <<>>
  /\ relay.pc = "closed"
  /\ AppendAndFinally("done")

\* the byte stream ends early: reader.read() resolves with done although
\* the relay has not closed or bytes were still under way
TransportEnds ==
  /\ chat.pc = "read"
  /\ ~(wire = <<>> /\ relay.pc = "closed")
  /\ AppendAndFinally("severed")

\* reader.read() rejects
TransportFails ==
  /\ chat.pc = "read"
  /\ CatchAndFinally(<<"network error">>, "read")

(***************************************************************************)
(* Consumer: reset and insight saving.                                     *)
(***************************************************************************)
\* the consumer's React state as one record
ConsumerState ==
  [messages |-> messages, input |-> input, streamingContent |-> streamingContent,
   isLoading |-> isLoading, error |-> error, savedInsightIds |-> savedInsightIds,
   savingInsightId |-> savingInsightId]

\* variant of AfterReset without setSavedInsightIds(new Set())
AfterReset_KeepsSaved(st) ==
  [st EXCEPT !.messages = GreetingMessages,
             !.input = <<>>,
             !.streamingContent = <<>>,
             !.error = NullError,
             !.savingInsightId = NoId]

\* variant of AfterReset that also ends the loading state
AfterReset_ClearsLoading(st) ==
  [st EXCEPT !.messages = GreetingMessages,
             !.input = <<>>,
             !.streamingContent = <<>>,
             !.isLoading = FALSE,
             !.error = NullError,
             !.savedInsightIds = {},
             !.savingInsightId = NoId]

\* handleReset (setMessages([]), setInput(''), ...) followed by the greeting
\* effect that the cleared isInitialized flag triggers; isLoading is kept
AfterReset(st) ==
  [st EXCEPT !.messages = GreetingMessages,
             !.input = <<>>,
             !.streamingContent = <<>>,
             !.error = NullError,
             !.savedInsightIds = {},
             !.savingInsightId = NoId]

\* the reset button is rendered when messages.length > 1
handleReset ==
  LET st == AfterReset(ConsumerState)
  IN  /\ Len(messages) > 1
      /\ counters.resets < MaxResets
      /\ messages' = st.messages
      /\ input' = st.input
      /\ streamingContent' = st.streamingContent
      /\ isLoading' = st.isLoading
      /\ error' = st.error
      /\ savedInsightIds' = st.savedInsightIds
      /\ savingInsightId' = st.savingInsightId
      /\ chat' = [chat EXCEPT !.abandoned = (chat.pc # "idle")]
      /\ counters' = [counters EXCEPT !.resets = @ + 1]
      /\ UNCHANGED <<db, post, env, insightPost, relay, wire, emitted, saves, lastSave>>

\* showSaveInsight, and the button is not disabled (isSaved || isSaving)
SaveButtonEnabled(m) ==
  /\ m.role = "model"
  /\ m.id # GREETING_MESSAGE_ID
  /\ ~(m.id \in savedInsightIds \/ savingInsightId = m.id)

handleSaveInsight(modelMessageId) ==
  LET modelMessageIndex == FindIndex(messages, modelMessageId)
      userIndex == PairedUserIndex(messages, modelMessageIndex)
  IN  /\ \E i \in 1..Len(messages) :
            messages[i].id = modelMessageId /\ SaveButtonEnabled(messages[i])
      /\ counters.saves < MaxSaves
      /\ IF modelMessageIndex < 1 \/ userIndex = 0
           THEN /\ lastSave' = [target |-> modelMessageId, outcome |-> "noop",
                                user |-> NoId]
                /\ UNCHANGED <<savingInsightId, saves, counters>>
           ELSE /\ savingInsightId' = modelMessageId
                /\ saves' = Append(saves,
                     [id |-> modelMessageId,
                      question |-> messages[userIndex].content,
                      answer |-> messages[modelMessageIndex].content])
                /\ lastSave' = [target |-> modelMessageId, outcome |-> "sent",
                                user |-> messages[userIndex].id]
                /\ counters' = [counters EXCEPT !.saves = @ + 1]
      /\ UNCHANGED <<db, post, env, insightPost, messages, input, streamingContent, isLoading, error,
                     savedInsightIds, chat, relay, wire, emitted>>

\* variant of SaveSettles that marks the reply saved without testing response.ok
SaveSettles_MarksAlways(i, result) ==
  /\ i \in 1..Len(saves)
  /\ savedInsightIds' =
       IF result # "failed" THEN savedInsightIds \cup {saves[i].id} ELSE savedInsightIds
  /\ savingInsightId' = NoId
  /\ saves' = SubSeq(saves, 1, i - 1) \o SubSeq(saves, i + 1, Len(saves))
  /\ lastSave' = [target |-> saves[i].id, outcome |-> result, user |-> NoId]
  /\ UNCHANGED <<db, post, env, insightPost, messages, input, streamingContent, isLoading, error, chat,
                 relay, wire, emitted, counters>>

\* POST /api/insights answers (ok or not) or the fetch rejects
SaveSettles(i, result) ==
  /\ i \in 1..Len(saves)
  /\ savedInsightIds' =
       IF result = "ok" THEN savedInsightIds \cup {saves[i].id} ELSE savedInsightIds
  /\ savingInsightId' = NoId
  /\ saves' = SubSeq(saves, 1, i - 1) \o SubSeq(saves, i + 1, Len(saves))
  /\ lastSave' = [target |-> saves[i].id, outcome |-> result, user |-> NoId]
  /\ UNCHANGED <<db, post, env, insightPost, messages, input, streamingContent, isLoading, error, chat,
                 relay, wire, emitted, counters>>

\* reader.read() resolves with everything the relay has enqueued so far
ReadBuffered == \E n \in {Len(wire)} : Read(n)

(***************************************************************************)
(* Spec: a chat session (several submits, reset, insight saving); every    *)
(* read returns what is buffered, so frames may be coalesced.              *)
(***************************************************************************)
Next ==
  \/ \E s \in Inputs : TypeInput(s)
  \/ handleSubmit
  \/ FetchRejects
  \/ ResponseNotOk
  \/ OpenStream
  \/ \E text \in ProviderChunks : ProviderChunk(text)
  \/ ProviderComplete
  \/ \E e \in UnderlyingErrors : ProviderRaise(e)
  \/ getVertexAIThrows
  \/ ReadBuffered
  \/ ReadDone
  \/ TransportEnds
  \/ TransportFails
  \/ handleReset
  \/ \E i \in 1..Len(messages) : handleSaveInsight(messages[i].id)
  \/ \E i \in 1..Len(saves), result \in {"ok", "notok", "failed"} : SaveSettles(i, result)

Spec == Init /\ [][Next]_vars

(***************************************************************************)
(* SpecLive: the submits and resets of a chat session (no insight saving)  *)
(* under the assumption that every request goes on: the fetch settles,     *)
(* and the byte stream of an opened response ends or fails.                *)
(***************************************************************************)
NextLive ==
  \/ \E s \in Inputs : TypeInput(s)
  \/ handleSubmit
  \/ FetchRejects
  \/ ResponseNotOk
  \/ OpenStream
  \/ \E text \in ProviderChunks : ProviderChunk(text)
  \/ ProviderComplete
  \/ \E e \in UnderlyingErrors : ProviderRaise(e)
  \/ getVertexAIThrows
  \/ ReadBuffered
  \/ ReadDone
  \/ TransportEnds
  \/ TransportFails
  \/ handleReset

RequestProgress ==
  \/ FetchRejects
  \/ ResponseNotOk
  \/ OpenStream
  \/ ReadDone
  \/ TransportEnds
  \/ TransportFails

SpecLive == Init /\ [][NextLive]_vars /\ WF_vars(RequestProgress)

(***************************************************************************)
(* SpecStream: one exchange, with the byte stream cut into reads in every  *)
(* possible way, and insight saving on its reply.                          *)
(***************************************************************************)
FirstSubmit == counters.submits = 0 /\ handleSubmit

NextStream ==
  \/ \E s \in Inputs : TypeInput(s)
  \/ FirstSubmit
  \/ FetchRejects
  \/ ResponseNotOk
  \/ OpenStream
  \/ \E text \in ProviderChunks : ProviderChunk(text)
  \/ ProviderComplete
  \/ \E e \in UnderlyingErrors : ProviderRaise(e)
  \/ getVertexAIThrows
  \/ ReadBuffered
  \/ \E n \in 1..Len(wire) : n < Len(wire) /\ Read(n)
  \/ ReadDone
  \/ TransportEnds
  \/ TransportFails
  \/ \E i \in 1..Len(messages) : handleSaveInsight(messages[i].id)
  \/ \E i \in 1..Len(saves), result \in {"ok", "notok", "failed"} : SaveSettles(i, result)

SpecStream == Init /\ [][NextStream]_vars

(***************************************************************************)
(* SpecFrames: the read loop of handleSubmit over an arbitrary response    *)
(* body: the frames are whatever the server sends, in any order, frames    *)
(* after a terminal frame included; every read returns what is buffered.   *)
(***************************************************************************)
\* frames a response body can be made of, with the event each stands for
BodyFrames ==
  { [frame |-> TextFrame(<<"a">>), event |-> [kind |-> "text", value |-> <<"a">>]],
    [frame |-> DoneFrame, event |-> [kind |-> "done", value |-> <<>>]],
    [frame |-> ErrorFrame(<<"b", "o", "o", "m">>),
     event |-> [kind |-> "error", value |-> <<"b", "o", "o", "m">>]] }

\* the next frame of the response body arrives
FrameArrives(f) ==
  /\ chat.pc = "read"
  /\ relay.pc = "stream"
  /\ relay.chunks < MaxFrames
  /\ relay' = [relay EXCEPT !.chunks = @ + 1]
  /\ Enqueue(f.frame, f.event)
  /\ UNCHANGED <<db, post, env, insightPost, consumerVars, chat, saves, lastSave,
                 counters>>

\* the response body ends
BodyEnds ==
  /\ chat.pc = "read"
  /\ relay.pc = "stream"
  /\ relay' = [relay EXCEPT !.pc = "closed"]
  /\ UNCHANGED <<db, post, env, insightPost, consumerVars, chat, wire, emitted,
                 saves, lastSave, counters>>

InitFrames ==
  /\ InitSession
  /\ db = SessionDb
  /\ post = IdlePost
  /\ env = [GCP_PROJECT_ID |-> TRUE]
  /\ insightPost = IdleInsightPost

NextFrames ==
  \/ \E s \in Inputs : TypeInput(s)
  \/ FirstSubmit
  \/ OpenStream
  \/ \E f \in BodyFrames : FrameArrives(f)
  \/ BodyEnds
  \/ ReadBuffered
  \/ ReadDone

SpecFrames == InitFrames /\ [][NextFrames]_vars

(***************************************************************************)
(* SpecLong: one submit in a session that has had up to MaxExchanges       *)
(* exchanges, each ended with a reply, and no reset.                       *)
(***************************************************************************)
InitLong ==
  /\ \E k \in 0..MaxExchanges : SessionAfter(k)
  /\ db = SessionDb
  /\ post = IdlePost
  /\ env = [GCP_PROJECT_ID |-> TRUE]
  /\ insightPost = IdleInsightPost

NextLong ==
  \/ \E s \in Inputs : TypeInput(s)
  \/ FirstSubmit
  \/ ResponseInvalid
  \/ OpenStream
  \/ \E text \in ProviderChunks : ProviderChunk(text)
  \/ ProviderComplete
  \/ ReadBuffered
  \/ ReadDone

SpecLong == InitLong /\ [][NextLong]_vars

(***************************************************************************)
(* SpecRelay: one POST /api/chat call, from the request to its Response,   *)
(* over every store and request of Stores and Bodies.                      *)
(***************************************************************************)
sessionVars ==
  <<consumerVars, chat, relay, wire, emitted, saves, lastSave, counters>>

\* return createClientErrorResponse(...) / createServerErrorResponse(...)
Respond(call, status, code) ==
  [call EXCEPT !.pc = "responded", !.response = ErrorResponse(status, code)]

\* new Response(stream): start(controller) runs and calls
\* streamChat(context, messages, userMessage)
OpenWith(call, context) ==
  [call EXCEPT !.pc = "streaming", !.response = [kind |-> "stream", status |-> 200, code |-> "NONE"],
               !.context = context, !.providerCalls = @ + 1]

\* POST up to its first store read: request.json(), safeParse,
\* isValidDocumentId, getDb(), doc(id).get()
POST(body) ==
  LET parseResult == SafeParse(body)
      isConversation == parseResult.conversationId.type # "undefined"
      subject == IF isConversation THEN parseResult.conversationId.value
                 ELSE parseResult.spaceId.value
      call == [post EXCEPT !.body = body]
  IN  /\ post.pc = "idle"
      /\ post' =
           IF body.kind = "malformed" THEN Respond(call, 400, "INVALID_JSON")
           ELSE IF ~parseResult.success THEN Respond(call, 400, "VALIDATION_ERROR")
           ELSE IF ~isValidDocumentId(subject)
             THEN Respond(call, 400, "INVALID_ID_FORMAT")
           ELSE IF ~db.configured
             THEN Respond(call, 500, ServerErrorCode(FirebaseNotConfigured))
           ELSE [call EXCEPT
                   !.pc = IF isConversation THEN "conversation" ELSE "space",
                   !.subject = subject,
                   !.reads = Append(@, [collection |-> IF isConversation
                                                        THEN "conversations" ELSE "spaces",
                                        ids |-> <<subject>>]),
                   !.messages = [i \in 1..Len(parseResult.chatHistory) |->
                                   [role |-> parseResult.chatHistory[i].role,
                                    content |-> parseResult.chatHistory[i].content]],
                   !.userMessage = parseResult.userMessage]
      /\ UNCHANGED <<sessionVars, db, env, insightPost>>

\* variant of ConversationSnapshot without the Array.isArray test
ConversationSnapshot_NoArrayTest ==
  LET doc == GetDoc(db.conversations, post.subject)
  IN  /\ post.pc = "conversation"
      /\ post' =
           IF ~doc.exists THEN Respond(post, 404, "NOT_FOUND")
           ELSE OpenWith(post, ConversationContext(doc))
      /\ UNCHANGED <<sessionVars, db, env, insightPost>>

\* buildConversationContext after the document was read
ConversationSnapshot ==
  LET doc == GetDoc(db.conversations, post.subject)
  IN  /\ post.pc = "conversation"
      /\ post' =
           IF ~doc.exists THEN Respond(post, 404, "NOT_FOUND")
           ELSE IF ~doc.messages.isArray
             \* new Error('conversation.messages is not an array')
             THEN Respond(post, 500, ServerErrorCode(
                    [isError |-> TRUE,
                     message |-> <<"conversation.messages is not an array">>]))
           ELSE OpenWith(post, ConversationContext(doc))
      /\ UNCHANGED <<sessionVars, db, env, insightPost>>

\* buildSpaceContext after the space document was read
SpaceSnapshot ==
  LET space == GetDoc(db.spaces, post.subject)
  IN  /\ post.pc = "space"
      /\ post' =
           IF ~space.exists THEN Respond(post, 404, "NOT_FOUND")
           ELSE IF Len(space.conversationIds) > 0
             THEN [post EXCEPT
                     !.pc = "members", !.space = space,
                     !.reads = Append(@, [collection |-> "conversations",
                                          ids |-> space.conversationIds])]
           ELSE OpenWith([post EXCEPT !.space = space], SpaceContext(space, <<>>))
      /\ UNCHANGED <<sessionVars, db, env, insightPost>>

\* buildSpaceContext after db.getAll(...refs)
MemberSnapshots ==
  LET docs == GetAll(db.conversations, post.space.conversationIds)
  IN  /\ post.pc = "members"
      /\ post' = OpenWith(post, SpaceContext(post.space, docs))
      /\ UNCHANGED <<sessionVars, db, env, insightPost>>

\* a store read rejects: the catch of POST
ReadRejects(e) ==
  /\ post.pc \in {"conversation", "space", "members"}
  /\ post' = Respond([post EXCEPT !.rejected = TRUE], 500, ServerErrorCode(e))
  /\ UNCHANGED <<sessionVars, db, env, insightPost>>

\* start(controller) up to the first step of streamChat: getVertexAI()
\* returns the client, or throws and the catch of start enqueues an error
\* frame on the stream of the Response that was already returned
StreamStart ==
  /\ post.pc = "streaming"
  /\ post.started = "no"
  /\ post' =
       IF env.GCP_PROJECT_ID
         THEN [post EXCEPT !.started = "provider"]
         ELSE [post EXCEPT
                 !.started = "unconfigured",
                 !.frames = <<[kind |-> "error",
                               value |-> RelayErrorMessage(VertexNotConfigured)]>>]
  /\ UNCHANGED <<sessionVars, db, env, insightPost>>

InitRelay ==
  /\ InitSession
  /\ db \in Stores
  /\ post = IdlePost
  /\ env \in Environments
  /\ insightPost = IdleInsightPost

NextRelay ==
  \/ \E body \in Bodies : POST(body)
  \/ ConversationSnapshot
  \/ SpaceSnapshot
  \/ MemberSnapshots
  \/ \E e \in StoreErrors : ReadRejects(e)
  \/ StreamStart

SpecRelay == InitRelay /\ [][NextRelay]_vars

(***************************************************************************)
(* SpecInsights: POST /api/insights calls, one after the other, over the   *)
(* stores of InsightStores and the requests of InsightBodies.              *)
(***************************************************************************)
InsightError(call, status, code) ==
  [call EXCEPT !.pc = "responded", !.response = InsightFailure(status, code)]

\* POST up to its store read: request.json(), safeParse, getDb(),
\* isValidDocumentId, doc(id).get()
insightsPOST(body, now) ==
  LET isConversation == Truthy(body.conversationId)
      targetId == IF body.conversationId.type # "undefined"
                    THEN body.conversationId.value ELSE body.spaceId.value
      call == [insightPost EXCEPT !.body = body, !.now = now, !.reads = <<>>,
                                  !.calls = @ + 1]
  IN  /\ insightPost.pc \in {"idle", "responded"}
      /\ insightPost.calls < MaxInsightCalls
      /\ insightPost' =
           IF body.kind = "malformed" THEN InsightError(call, 400, "INVALID_JSON")
           ELSE IF ~SaveInsightParses(body)
             THEN InsightError(call, 400, "VALIDATION_ERROR")
           ELSE IF ~db.configured
             THEN InsightError(call, 500, ServerErrorCode(FirebaseNotConfigured))
           ELSE IF targetId = <<>> \/ ~isValidDocumentId(targetId)
             THEN InsightError(call, 400, "INVALID_ID_FORMAT")
           ELSE [call EXCEPT
                   !.pc = "exists",
                   !.reads = <<[collection |-> IF isConversation
                                                 THEN "conversations" ELSE "spaces",
                                id |-> targetId]>>]
      /\ UNCHANGED <<sessionVars, db, env, post>>

\* variant of SubjectSnapshot that does not test doc.exists
SubjectSnapshot_NoExistsTest ==
  /\ insightPost.pc = "exists"
  /\ insightPost' = [insightPost EXCEPT !.pc = "add"]
  /\ UNCHANGED <<sessionVars, db, env, post>>

\* the snapshot of the referenced conversation or space arrives
SubjectSnapshot ==
  LET read == insightPost.reads[1]
      doc == IF read.collection = "conversations"
               THEN GetDoc(db.conversations, read.id) ELSE GetDoc(db.spaces, read.id)
  IN  /\ insightPost.pc = "exists"
      /\ insightPost' =
           IF ~doc.exists THEN InsightError(insightPost, 404, "NOT_FOUND")
           ELSE [insightPost EXCEPT !.pc = "add"]
      /\ UNCHANGED <<sessionVars, db, env, post>>

\* db.collection('insights').add(...) resolves; the 201 response
InsightAdded ==
  LET id == Len(db.insights) + 1
  IN  /\ insightPost.pc = "add"
      /\ db' = [db EXCEPT !.insights =
                   Append(@, InsightDoc(id, insightPost.body, insightPost.now))]
      /\ insightPost' = [insightPost EXCEPT
                           !.pc = "responded",
                           !.response = InsightCreated(id, insightPost.now)]
      /\ UNCHANGED <<sessionVars, env, post>>

\* get() or add() rejects: the catch of POST
InsightStoreRejects(e) ==
  /\ insightPost.pc \in {"exists", "add"}
  /\ insightPost' = InsightError(insightPost, 500, ServerErrorCode(e))
  /\ UNCHANGED <<sessionVars, db, env, post>>

InitInsights ==
  /\ InitSession
  /\ db \in InsightStores
  /\ post = IdlePost
  /\ env = [GCP_PROJECT_ID |-> TRUE]
  /\ insightPost = IdleInsightPost

NextInsights ==
  \/ \E body \in InsightBodies, now \in {"t1", "t2"} : insightsPOST(body, now)
  \/ SubjectSnapshot
  \/ InsightAdded
  \/ \E e \in StoreErrors : InsightStoreRejects(e)

SpecInsights == InitInsights /\ [][NextInsights]_vars

(***************************************************************************)
(* Properties.                                                             *)
(***************************************************************************)
TerminalKinds == {"done", "error"}

Terminals == {i \in 1..Len(emitted) : emitted[i].kind \in TerminalKinds}

RECURSIVE TextOf(_)
\* in-order concatenation of the text fragments among the emitted frames
TextOf(events) ==
  IF events = <<>> THEN <<>>
  ELSE (IF Head(events).kind = "text" THEN Head(events).value ELSE <<>>)
         \o TextOf(Tail(events))

ProviderRaised ==
  emitted # <<>> /\ emitted[Len(emitted)].kind = "error"

\* C1: the frames the relay enqueues for a request are text frames followed
\* by exactly one terminal frame ([DONE] or error), which is the last frame:
\* no terminal while the provider is still running, exactly one once the
\* stream is closed, and never a frame after it.
C1_OneTerminalLast ==
  /\ Cardinality(Terminals) <= 1
  /\ \A i \in Terminals : i = Len(emitted)
  /\ relay.pc = "stream" => Terminals = {}
  /\ relay.pc = "closed" => Cardinality(Terminals) = 1
  /\ relay.pc \in {"none", "received"} => emitted = <<>>

\* C1 witness: the provider raised after two fragments and the stream closed
C1_Witness ==
  /\ relay.pc = "closed"
  /\ Len(emitted) = 3
  /\ emitted[1].kind = "text" /\ emitted[2].kind = "text"
  /\ emitted[3].kind = "error"

\* C2 (as claimed): however the byte stream is cut into reads, once the
\* consumer has read every byte the relay enqueued, its accumulated text is
\* the in-order concatenation of the emitted text fragments.
C2_NoFragmentLost ==
  (chat.pc = "read" /\ wire = <<>>) => chat.accumulatedContent = TextOf(emitted)

\* C3 (as claimed): a model turn is appended for a submit only if the
\* consumer received the [DONE] frame of that stream; a stream that ends
\* without a terminal frame, or a failed read, ends the submit in an error.
C3_AppendOnlyAfterDone ==
  /\ chat.outcome = "appended" => chat.doneSeen
  /\ chat.how \in {"severed", "read"} => chat.outcome = "error"

\* C4 (as claimed): when the provider raised and the consumer read the
\* stream to its end, the submit ends with the relay's error message
\* surfaced, the accumulator cleared and no model turn appended.
C4_RaiseEndsInError ==
  [][ ( /\ chat.pc = "read" /\ chat'.pc = "idle"
        /\ chat'.how \in {"done", "frame"}
        /\ ProviderRaised )
      => ( /\ error' = ErrorOf(emitted[Len(emitted)].value)
           /\ streamingContent' = <<>>
           /\ messages' = messages ) ]_vars

\* C5 (as claimed): the output of a request abandoned by Reset is ignored:
\* when that request ends, the history and the error stay as they are.
C5_AbandonedOutputIgnored ==
  [][ (chat.abandoned /\ chat.pc # "idle" /\ chat'.pc = "idle")
      => (messages' = messages /\ error' = error) ]_vars

\* C6: whatever the state, a reset (with the greeting effect) leaves exactly
\* the greeting turn, no error, an empty accumulator and no saved or saving
\* mark, and resetting the reset state changes nothing.
C6_ResetYieldsGreeting ==
  [][ /\ AfterReset(AfterReset(ConsumerState)) = AfterReset(ConsumerState)
      /\ (counters'.resets = counters.resets + 1)
           => ( /\ Len(messages') = 1
                /\ messages'[1].id = GREETING_MESSAGE_ID
                /\ messages'[1].role = "model"
                /\ error' = NullError
                /\ streamingContent' = <<>>
                /\ savedInsightIds' = {}
                /\ savingInsightId' = NoId
                /\ AfterReset(ConsumerState') = ConsumerState' ) ]_vars

\* C6 witness: a reset was performed during the second exchange, while its
\* request was streaming and partial text had been accumulated
C6_Witness ==
  /\ counters.resets = 1
  /\ chat.abandoned /\ chat.pc = "read" /\ chat.accumulatedContent # <<>>
  /\ Len(chat.before) = 3
  /\ messages = GreetingMessages

NonGreetingIndexes(ms) == {i \in 1..Len(ms) : ms[i].id # GREETING_MESSAGE_ID}

\* index of the k-th turn of ms that is not the greeting
NthNonGreeting(ms, k) ==
  CHOOSE i \in NonGreetingIndexes(ms) :
    Cardinality({j \in NonGreetingIndexes(ms) : j < i}) = k - 1

\* C7: the chatHistory of every request holds, in order, exactly the turns
\* that were in the history before the submit and are not the greeting; the
\* greeting text is never in it, and the new user message travels in
\* userMessage only.
C7_ChatHistoryExcludesGreeting ==
  chat.pc # "idle" =>
    /\ Len(chat.chatHistory) = Cardinality(NonGreetingIndexes(chat.before))
    /\ \A k \in 1..Len(chat.chatHistory) :
         /\ chat.chatHistory[k].role = chat.before[NthNonGreeting(chat.before, k)].role
         /\ chat.chatHistory[k].content = chat.before[NthNonGreeting(chat.before, k)].content
         /\ chat.chatHistory[k].content # <<GreetingText>>
    /\ \A i \in 1..Len(chat.before) : chat.before[i].id # chat.userId
    /\ chat.userMessage # <<>>
    /\ ~chat.abandoned =>
         /\ Len(messages) > Len(chat.before)
         /\ messages[Len(chat.before) + 1] =
              [id |-> chat.userId, role |-> "user", content |-> chat.userMessage]

\* C7 witness: a request issued after one complete exchange
C7_Witness ==
  /\ chat.pc = "fetch"
  /\ Len(chat.chatHistory) = 2
  /\ chat.chatHistory[1].role = "user" /\ chat.chatHistory[2].role = "model"
  /\ chat.before[1].id = GREETING_MESSAGE_ID

InFlightSaveFor(id) == \E k \in 1..Len(saves) : saves[k].id = id

\* C8 (as claimed): while a save for a reply is in flight, no further
\* submission for that reply can be issued: its save button is disabled.
C8_NoRepeatedSubmission ==
  \A i \in 1..Len(messages) :
    InFlightSaveFor(messages[i].id) => ~SaveButtonEnabled(messages[i])

UserIndexesBefore(ms, idx) == {j \in 1..(idx - 1) : ms[j].role = "user"}

\* C9: the extractor pairs a model turn with the nearest user turn before it
\* and sends that pair; when there is none, the call sends nothing, sets no
\* saving or saved mark and no error.
C9_PairsNearestUser ==
  [][ /\ \A idx \in 1..Len(messages) :
           LET u == PairedUserIndex(messages, idx)
               before == UserIndexesBefore(messages, idx)
           IN  /\ before = {} => u = 0
               /\ before # {} => (u \in before /\ \A j \in before : j <= u)
      /\ (lastSave' # lastSave /\ lastSave'.outcome = "sent") =>
           LET idx == FindIndex(messages, lastSave'.target)
               before == UserIndexesBefore(messages, idx)
               u == CHOOSE j \in before : \A k \in before : k <= j
           IN  /\ before # {}
               /\ lastSave'.user = messages[u].id
               /\ saves' = Append(saves, [id |-> lastSave'.target,
                                          question |-> messages[u].content,
                                          answer |-> messages[idx].content])
               /\ savingInsightId' = lastSave'.target
      /\ (lastSave' # lastSave /\ lastSave'.outcome = "noop") =>
           /\ UserIndexesBefore(messages, FindIndex(messages, lastSave'.target)) = {}
           /\ UNCHANGED <<saves, savingInsightId, savedInsightIds, error, messages>> ]_vars

\* C9 witness: the second reply was sent with the second question
C9_Witness ==
  /\ Len(messages) = 5
  /\ lastSave.outcome = "sent"
  /\ lastSave.target = messages[5].id
  /\ lastSave.user = messages[4].id
  /\ messages[2].role = "user"
  /\ InFlightSaveFor(messages[5].id)

\* C10 (as claimed): every model turn other than the greeting has a user turn
\* somewhere before it.
C10_ReplyHasQuestion ==
  \A i \in 1..Len(messages) :
    (messages[i].role = "model" /\ messages[i].id # GREETING_MESSAGE_ID)
      => UserIndexesBefore(messages, i) # {}

\* id of the reply appended by the handleSubmit call that ended last
LastReplyId == ModelId(counters.nextId - 1)

\* C11 (as claimed): every insight submission has a non-empty question, and
\* the answer of a submission built from the reply of a stream that ended
\* with done is the concatenation of the text fragments of that stream.
C11_AnswerIsWholeReply ==
  \A k \in 1..Len(saves) :
    /\ saves[k].question # <<>>
    /\ ( /\ chat.pc = "idle" /\ chat.outcome = "appended"
         /\ chat.how = "done" /\ chat.doneSeen
         /\ saves[k].id = LastReplyId )
       => saves[k].answer = TextOf(emitted)

\* C12: when an insight save fails (response not ok, or the fetch rejects),
\* the chat history, the chat error and the loading and streaming state stay
\* as they are, the reply is not marked saved, and no reply is marked as
\* being saved, so that the button of the reply is enabled again.
C12_FailedSaveIsSilent ==
  [][ (lastSave' # lastSave /\ lastSave'.outcome \in {"notok", "failed"})
      => ( /\ UNCHANGED <<messages, error, isLoading, streamingContent, input, chat>>
           /\ savedInsightIds' = savedInsightIds
           /\ savingInsightId' = NoId
           /\ \A i \in 1..Len(messages') :
                (messages'[i].id = lastSave'.target /\ lastSave'.target \notin savedInsightIds')
                  => ~(messages'[i].id \in savedInsightIds' \/ savingInsightId' = messages'[i].id) ) ]_vars

\* C12 witness: a save failed while a later submit was streaming
C12_Witness ==
  /\ lastSave.outcome \in {"notok", "failed"}
  /\ chat.pc = "read" /\ streamingContent # <<>>
  /\ \E i \in 1..Len(messages) : messages[i].id = lastSave.target
  /\ lastSave.target \notin savedInsightIds
  /\ savingInsightId = NoId

\* a subject field of the request body is present
Present(v) == v.type # "undefined"

\* C13: a request with both conversationId and spaceId, or with neither, is
\* answered 400 VALIDATION_ERROR without a store read or a provider call; a
\* request that reaches the store or the provider has exactly one of them.
C13_ExactlyOneSubject ==
  /\ ( /\ post.pc # "idle" /\ post.body.kind = "object"
       /\ Present(post.body.conversationId) = Present(post.body.spaceId) )
     => ( /\ post.response = ErrorResponse(400, "VALIDATION_ERROR")
          /\ post.reads = <<>>
          /\ post.providerCalls = 0 )
  /\ (post.reads # <<>> \/ post.providerCalls > 0 \/ post.response.kind = "stream")
     => ( /\ post.body.kind = "object"
          /\ Present(post.body.conversationId) # Present(post.body.spaceId) )

\* C13 witness: a request with both subjects, each a well-formed id, was rejected
C13_Witness ==
  /\ post.pc = "responded"
  /\ post.body.conversationId = Str(c1) /\ post.body.spaceId = Str(s1)
  /\ post.response.code = "VALIDATION_ERROR"

\* the subject id of a body that names exactly one subject by a string
SubjectOf(body) ==
  IF Present(body.conversationId) THEN body.conversationId.value ELSE body.spaceId.value

\* the fields of an object body break a rule of the schema
BreaksSchema(body) ==
  \/ \E v \in {body.conversationId, body.spaceId} :
       Present(v) /\ (v.type # "string" \/ v.value = <<>>)
  \/ Present(body.conversationId) = Present(body.spaceId)
  \/ body.userMessage.type # "string"
  \/ Len(body.userMessage.value) \notin 1..MaxContentLength
  \/ body.chatHistory.type \notin {"undefined", "array"}
  \/ Len(body.chatHistory.value) > MaxHistoryLength
  \/ \E i \in 1..Len(body.chatHistory.value) :
       \/ body.chatHistory.value[i].role \notin {"user", "model"}
       \/ Len(body.chatHistory.value[i].content) > MaxContentLength

\* an id Firestore does not accept as a document id
BadIdFormat(id) ==
  \/ id = <<>> \/ Len(id) > MaxIdLength
  \/ "/" \in {id[i] : i \in 1..Len(id)}
  \/ id \in {<<".">>, <<".", ".">>}
  \/ (Len(id) >= 4 /\ SubSeq(id, 1, 2) = <<"_", "_">>
        /\ SubSeq(id, Len(id) - 1, Len(id)) = <<"_", "_">>
        /\ NL \notin {id[i] : i \in 1..Len(id)})

ValidationCodes == {"INVALID_JSON", "VALIDATION_ERROR", "INVALID_ID_FORMAT"}

\* C14: malformed JSON, a schema violation and a subject id of invalid format
\* are answered 400 INVALID_JSON, VALIDATION_ERROR and INVALID_ID_FORMAT as
\* non-streaming responses, and no store read was issued before.
C14_ValidationBeforeIO ==
  post.pc # "idle" =>
    /\ post.body.kind = "malformed" => post.response = ErrorResponse(400, "INVALID_JSON")
    /\ (post.body.kind = "null" \/ (post.body.kind = "object" /\ BreaksSchema(post.body)))
         => post.response = ErrorResponse(400, "VALIDATION_ERROR")
    /\ (post.body.kind = "object" /\ ~BreaksSchema(post.body)
          /\ BadIdFormat(SubjectOf(post.body)))
         => post.response = ErrorResponse(400, "INVALID_ID_FORMAT")
    /\ post.response.code \in ValidationCodes
         => (post.reads = <<>> /\ post.response.kind = "json" /\ post.providerCalls = 0)

\* C14 witness: a well-formed request whose subject id has a slash was
\* answered INVALID_ID_FORMAT on a configured store
C14_Witness ==
  /\ post.pc = "responded"
  /\ post.body.conversationId = Str(<<"a", "/", "b">>)
  /\ post.response.code = "INVALID_ID_FORMAT"
  /\ db.configured

\* the document a conversation request names
SubjectConversation == GetDoc(db.conversations, SubjectOf(post.body))

\* the call has ended without a store read having rejected
Settled == post.pc \in {"responded", "streaming"} /\ ~post.rejected

\* C15: the stream is opened and the provider called only after the context
\* was resolved; a subject that does not exist is answered 404 NOT_FOUND, a
\* conversation whose stored messages are not an array is answered by a 500
\* error other than NOT_FOUND, both as non-streaming responses without a
\* provider call.
C15_StreamOnlyAfterContext ==
  /\ post.providerCalls = IF post.response.kind = "stream" THEN 1 ELSE 0
  /\ post.response.kind = "stream"
       => (post.pc = "streaming" /\ post.reads # <<>> /\ ~post.rejected)
  /\ (Settled /\ post.reads # <<>> /\ post.reads[1].collection = "conversations")
       => ( /\ ~SubjectConversation.exists
                 => post.response = ErrorResponse(404, "NOT_FOUND")
            /\ (SubjectConversation.exists /\ ~SubjectConversation.messages.isArray)
                 => ( /\ post.response.kind = "json" /\ post.response.status = 500
                      /\ post.response.code # "NOT_FOUND" )
            /\ (SubjectConversation.exists /\ SubjectConversation.messages.isArray)
                 => ( /\ post.response.kind = "stream"
                      /\ post.context.title = SubjectConversation.title ) )
  /\ (Settled /\ post.reads # <<>> /\ post.reads[1].collection = "spaces")
       => ( ~GetDoc(db.spaces, SubjectOf(post.body)).exists
              => post.response = ErrorResponse(404, "NOT_FOUND") )

\* C15 witness: a conversation whose messages are not an array was requested
C15_Witness ==
  /\ post.pc = "responded" /\ ~post.rejected
  /\ post.reads # <<>> /\ post.reads[1].collection = "conversations"
  /\ SubjectConversation.exists /\ ~SubjectConversation.messages.isArray
  /\ post.response.status = 500

\* positions in the space's reference list whose conversation exists with
\* an array of messages
Survivors ==
  {i \in 1..Len(post.space.conversationIds) :
     LET doc == GetDoc(db.conversations, post.space.conversationIds[i])
     IN  doc.exists /\ doc.messages.isArray}

\* the k-th surviving position, in reference order
NthSurvivor(k) ==
  CHOOSE i \in Survivors : Cardinality({j \in Survivors : j < i}) = k - 1

\* the summary cut at the `---` lines
SummaryBlocks == Split(post.context.conversationSummary, "---")

\* block k of the summary is headed by number k and the title of conv
HeadedBy(block, k, conv) ==
  \E h \in 1..Len(block) :
    /\ block[h] = HeaderMark
    /\ \A j \in 1..Len(block) : block[j] = HeaderMark => j = h
    /\ SubSeq(block, h + 1, h + 3 + Len(conv.title))
         = <<ToString(k), ":", SPACE>> \o conv.title

\* C17: for an existing space, buildSpaceContext succeeds whatever members
\* are missing or malformed, and its summary has one block per surviving
\* conversation, in reference order, numbered from 1 and separated by `---`;
\* title and note are the space's.
C17_SpaceSummaryBlocks ==
  (Settled /\ post.space.exists) =>
    /\ post.pc = "streaming" /\ post.response.kind = "stream"
    /\ post.context.title = post.space.title
    /\ post.context.note = post.space.note
    /\ post.space = GetDoc(db.spaces, SubjectOf(post.body))
    /\ IF Survivors = {}
         THEN post.context.conversationSummary = <<>>
         ELSE /\ Len(SummaryBlocks) = Cardinality(Survivors)
              /\ \A k \in 1..Len(SummaryBlocks) :
                   HeadedBy(SummaryBlocks[k], k,
                            GetDoc(db.conversations,
                                   post.space.conversationIds[NthSurvivor(k)]))

\* C17 witness: three references, the second missing, two blocks
C17_Witness ==
  /\ post.pc = "streaming"
  /\ post.space.exists
  /\ Len(post.space.conversationIds) = 3
  /\ Survivors = {1, 3}
  /\ Len(SummaryBlocks) = 2

\* C18 (as claimed): when the context was built for a conversation with at
\* least one turn or for a space that references at least one conversation,
\* its summary is not empty.
C18_SummaryNotEmpty ==
  post.pc = "streaming" =>
    /\ ( /\ post.reads[1].collection = "conversations"
         /\ SubjectConversation.messages.items # <<>> )
       => post.context.conversationSummary # <<>>
    /\ (post.space.exists /\ post.space.conversationIds # <<>>)
       => post.context.conversationSummary # <<>>

\* the step in which the consumer gets the relay's non-streaming NOT_FOUND answer
NotFoundAnswered == chat.pc = "fetch" /\ chat'.pc = "idle" /\ chat'.how = "response"

\* C16 (as claimed): when the relay answers NOT_FOUND without a stream, the
\* consumer shows the error, is idle again, and its history is the sequence of
\* turns it had before the submit.
C16_HistoryAsBeforeSubmit ==
  [][ NotFoundAnswered
      => ( /\ error' = ErrorOf(<<MsgConversationNotFound>>)
           /\ ~isLoading'
           /\ messages' = chat.before ) ]_vars

\* C16 (amended): when the relay answers NOT_FOUND without a stream, the
\* consumer shows the error of the response and is idle again; the answer adds
\* and removes no turn, so the history keeps the user turn the submit appended
\* (the turns before the submit followed by that user turn, unless a reset
\* cleared the history meanwhile) and gets no model turn.
C16_HistoryKeepsUserTurn ==
  [][ NotFoundAnswered
      => ( /\ error' = ErrorOf(<<MsgConversationNotFound>>)
           /\ ~isLoading'
           /\ streamingContent' = <<>>
           /\ messages' = messages
           /\ ~chat.abandoned =>
                messages' = Append(chat.before,
                                   [id |-> chat.userId, role |-> "user",
                                    content |-> chat.userMessage]) ) ]_vars

\* C16 witness: the second submit of a session was answered NOT_FOUND
C16_Witness ==
  /\ chat.pc = "idle" /\ chat.how = "response" /\ ~chat.abandoned
  /\ Len(chat.before) = 3 /\ Len(messages) = 4
  /\ messages[4].role = "user"
  /\ error = ErrorOf(<<MsgConversationNotFound>>)
  /\ ~isLoading

\* the bytes the relay enqueued in this step, decoded and cut into lines
EnqueuedLines ==
  Split(DecodeBytes(SubSeq(wire', Len(wire) + 1, Len(wire'))).text, NL)

\* C19 (as claimed): every fragment the adapter yields is enqueued at once as
\* one text frame whose payload is that fragment, in order; and when the
\* consumer has read all the bytes enqueued so far, the partial reply it
\* renders is the concatenation of the fragments of the frames it received.
C19_FramesAndRenderInOrder ==
  [][ /\ (relay'.chunks = relay.chunks + 1 /\ emitted' # emitted)
         => ( /\ Len(emitted') = Len(emitted) + 1
              /\ SubSeq(emitted', 1, Len(emitted)) = emitted
              /\ emitted'[Len(emitted')].kind = "text"
              /\ Len(EnqueuedLines) = 3
              /\ StartsWith(EnqueuedLines[1], DataPrefix)
              /\ JSONParse(Slice(EnqueuedLines[1], 6)) =
                   [ok |-> TRUE, key |-> KeyText, val |-> emitted'[Len(emitted')].value]
              /\ EnqueuedLines[2] = <<>> /\ EnqueuedLines[3] = <<>> )
      /\ ( /\ chat.pc = "read" /\ chat'.pc = "read" /\ ~chat.abandoned
           /\ wire # <<>> /\ wire' = <<>>
           /\ emitted[Len(emitted)].kind = "text" )
         => streamingContent' = TextOf(emitted) ]_vars

\* C20 (as claimed): when a stream that delivered text ends with done, the
\* consumer appends one model turn holding the accumulated text directly
\* after the user turn of that submit, clears the accumulator and is idle
\* with no error.
C20_DoneAppendsReply ==
  [][ ( /\ chat.pc = "read" /\ chat'.pc = "idle" /\ chat'.how = "done"
        /\ chat.doneSeen /\ TextOf(emitted) # <<>> )
      => ( /\ messages' = Append(messages,
                                 [id |-> ModelId(counters.nextId), role |-> "model",
                                  content |-> chat.accumulatedContent])
           /\ chat.accumulatedContent # <<>>
           /\ messages[Len(messages)].id = chat.userId
           /\ streamingContent' = <<>>
           /\ ~isLoading'
           /\ error' = NullError ) ]_vars

\* the messages the adapter classifies a provider failure into
ClassifiedMessages ==
  { <<MsgPermissionDenied>>, <<MsgRateLimited>>, <<MsgApiNotFound>>,
    VertexNotConfigured.message, <<MsgRelayDefault>> }

\* C21 (as claimed): the message of every error frame the relay enqueues, and
\* every error the consumer shows for an error frame, is one of the classified
\* messages of the adapter; the text of an unmatched provider error is not
\* forwarded.
C21_OnlyClassifiedMessages ==
  /\ \A i \in 1..Len(emitted) :
       emitted[i].kind = "error" => emitted[i].value \in ClassifiedMessages
  /\ (chat.pc = "idle" /\ chat.how = "frame") => error.message \in ClassifiedMessages

\* C22 (as claimed): without GCP_PROJECT_ID, a request whose context was
\* resolved is answered by the non-streaming 500 response with the code
\* VERTEX_AI_NOT_CONFIGURED, and no stream is opened for it.
C22_UnconfiguredIsPlainError ==
  (~env.GCP_PROJECT_ID /\ post.context # NoContext)
    => ( /\ post.response = ErrorResponse(500, "VERTEX_AI_NOT_CONFIGURED")
         /\ post.frames = <<>> )

\* the fields of a POST /api/insights body break a rule of the schema
BreaksInsightSchema(body) ==
  \/ \E v \in {body.conversationId, body.spaceId} :
       Present(v) /\ (v.type # "string" \/ v.value = <<>>)
  \/ Present(body.conversationId) = Present(body.spaceId)
  \/ \E v \in {body.question, body.answer} :
       v.type # "string" \/ Len(v.value) \notin 1..MaxContentLength

\* the document a POST /api/insights body refers to
InsightSubject(body) ==
  IF Present(body.conversationId)
    THEN GetDoc(db.conversations, body.conversationId.value)
    ELSE GetDoc(db.spaces, body.spaceId.value)

\* C23: POST /api/insights adds a document only for a body that satisfies the
\* schema, names exactly one subject with an id of valid format, and whose
\* subject exists; a request answered by anything but 201 leaves the insights
\* collection as it was; a request answered 201 has added exactly one
\* document, with the fields of the body and a fresh id, and the response
\* carries that id and the createdAt of the document.
C23_InsightWrittenOnlyWhenValid ==
  [][ LET call == insightPost'
          answered == insightPost' # insightPost /\ call.pc = "responded"
          last == db'.insights[Len(db'.insights)]
      IN  /\ db'.insights # db.insights
               => ( /\ call.body.kind = "object"
                    /\ ~BreaksInsightSchema(call.body)
                    /\ ~BadIdFormat(SubjectOf(call.body))
                    /\ InsightSubject(call.body).exists
                    /\ answered /\ call.response.status = 201 )
          /\ (answered /\ call.response.status # 201) => db'.insights = db.insights
          /\ (answered /\ call.response.code
                            \in ValidationCodes \cup {"NOT_FOUND"})
               => call.response.status \in {400, 404}
          /\ (answered /\ call.response.status = 201)
               => ( /\ db'.insights = Append(db.insights, last)
                    /\ \A j \in 1..Len(db.insights) : db.insights[j].id # last.id
                    /\ last.question = call.body.question
                    /\ last.answer = call.body.answer
                    /\ last.conversationId = call.body.conversationId
                    /\ last.spaceId = call.body.spaceId
                    /\ call.response.id = last.id
                    /\ call.response.createdAt = last.createdAt
                    /\ last.createdAt = call.now ) ]_vars

\* C23 witness: one request was accepted, and a later request for a subject
\* that does not exist was answered NOT_FOUND; the collection holds the one
\* document
C23_Witness ==
  /\ insightPost.calls = 2
  /\ insightPost.pc = "responded"
  /\ insightPost.response = InsightFailure(404, "NOT_FOUND")
  /\ Len(db.insights) = 1
  /\ db.insights[1].question = Q

\* C24 (as claimed): whenever the stream of a request that was not abandoned
\* ends with done after its [DONE] frame was read, one model turn holding the
\* accumulated text is appended after the user turn of the submit, also when
\* the provider yielded no fragment.
C24_DoneAlwaysAppends ==
  [][ ( /\ chat.pc = "read" /\ chat'.pc = "idle" /\ chat'.how = "done"
        /\ chat.doneSeen /\ ~chat.abandoned )
      => ( /\ Len(messages') = Len(messages) + 1
           /\ messages'[Len(messages')].role = "model"
           /\ messages'[Len(messages')].content = chat.accumulatedContent
           /\ messages'[Len(messages)].id = chat.userId ) ]_vars

\* C27 (as claimed): when the relay has enqueued an error frame, whatever its
\* message, and the consumer has read the stream to its end, the submit ends
\* in the errored outcome with an error shown and no model turn appended.
C27_ErrorFrameAlwaysErrors ==
  [][ ( /\ chat.pc = "read" /\ chat'.pc = "idle" /\ wire = <<>>
        /\ chat'.how \in {"done", "frame"}
        /\ ProviderRaised )
      => ( /\ chat'.outcome = "error"
           /\ ~error'.isNull
           /\ Len(messages') = Len(messages) ) ]_vars

\* the turns of seq alternate user, model, ..., user
Alternates(seq) ==
  /\ seq[1].role = "user"
  /\ seq[Len(seq)].role = "user"
  /\ \A i \in 1..(Len(seq) - 1) : seq[i].role # seq[i + 1].role

\* C28 (as claimed): the turns handed to the provider for every request
\* (chatHistory followed by the new user message) alternate strictly between
\* user and model, starting and ending with user.
C28_ProviderTurnsAlternate ==
  chat.pc # "idle" => Alternates(ProviderContents(chat.chatHistory, chat.userMessage))

\* number of user turns in the history
UserTurns(ms) == Cardinality({i \in 1..Len(ms) : ms[i].role = "user"})

\* C30: while a request is sending or streaming, also after a reset, the
\* consumer is loading, so that handleSubmit returns at its guard whatever
\* the input is: no step adds a user turn or issues a request, and a request
\* is only issued when none is under way.
C30_OneRequestInFlight ==
  [][ /\ chat.pc # "idle" => (isLoading /\ input = <<>>)
      /\ chat.pc # "idle"
           => ( /\ counters'.submits = counters.submits
                /\ UserTurns(messages') <= UserTurns(messages)
                /\ chat'.userId = chat.userId
                /\ relay'.pc # "received" \/ relay.pc = "received" )
      /\ counters'.submits # counters.submits
           => (chat.pc = "idle" /\ ~isLoading /\ chat'.pc = "fetch") ]_vars

\* C30 witness: the request is still streaming after a reset, and the session
\* has a submit left
C30_Witness ==
  /\ counters.resets = 1
  /\ chat.pc = "read" /\ chat.abandoned
  /\ isLoading
  /\ counters.submits < MaxSubmits
  /\ Len(messages) = 1

\* C25: the consumer is loading exactly while a request is under way; when
\* it is not loading, the partial reply is empty; and every request ends:
\* whenever the consumer is loading, it is eventually idle again with an
\* empty partial reply and the input enabled.
C25_EverySubmitSettles ==
  /\ [](isLoading <=> chat.pc # "idle")
  /\ [](~isLoading => streamingContent = <<>>)
  /\ (isLoading ~> (~isLoading /\ chat.pc = "idle" /\ streamingContent = <<>>))

\* C25 witness: the byte stream of the second submit ended early after text
\* had been rendered, and the consumer is idle with an empty partial reply
C25_Witness ==
  /\ counters.submits = 2
  /\ chat.pc = "idle" /\ chat.how = "severed"
  /\ chat.accumulatedContent # <<>>
  /\ ~isLoading /\ streamingContent = <<>>

\* the frames that arrived before the first [DONE] frame
BeforeDone(events) ==
  LET dones == {i \in 1..Len(events) : events[i].kind = "done"}
      first == CHOOSE i \in dones : \A j \in dones : i <= j
  IN  IF dones = {} THEN events ELSE SubSeq(events, 1, first - 1)

C29_HistoryFitsSchema ==
  /\ chat.pc # "idle" => Len(chat.chatHistory) <= MaxHistoryLength
  /\ chat.how # "invalid"

====
